---- MODULE Spec2Model ----
(***************************************************************************)
(* rustbus client_conn: the low-level Conn (framed, byte-exact receive     *)
(* over a unix stream socket with SCM_RIGHTS attribution, serial-stamping  *)
(* send) and the RpcConn dispatcher on top of it (calls queue, signals     *)
(* queue, responses map, acceptance filter).                               *)
(*                                                                         *)
(* The socket is modelled as the byte stream the peer writes (peer.wire),  *)
(* the control blocks attached to stream positions (peer.ctrl) and a read  *)
(* position rpos.  Every blocking syscall (recvmsg, read_exact, sendmsg)   *)
(* is one step; what the kernel returns is chosen nondeterministically.    *)
(* Where the clock is off (clock.on = FALSE) elapsed time is not measured:  *)
(* a call with timeout Some(_) may time out at every point where the code  *)
(* looks at the clock or blocks.  Where it is on, time is counted in ticks *)
(* and passes only while a syscall blocks.                                 *)
(***************************************************************************)
EXTENDS Integers, Sequences, FiniteSets, TLC

VARIABLES
    peer,            \* what the peer writes: [wire, ctrl, msgs, chunking]
    rpos,            \* bytes of peer.wire already read from the socket
    read_timeout,    \* the socket's SO_RCVTIMEO: "None" or "Some"
    msg_buf_in,      \* Conn.msg_buf_in
    serial_counter,  \* Conn.serial_counter
    signals,         \* RpcConn.signals
    calls,           \* RpcConn.calls
    responses,       \* RpcConn.responses: function from response_serial to message
    filter,          \* RpcConn.filter: the set of message types it accepts
    call,            \* the public call in progress: [op, serial, timeout]
    pc,              \* position inside that call
    cmsgs,           \* get_next_message: local cmsgs
    header,          \* get_next_message: local header
    bytes_needed,    \* get_next_message: local bytes_needed
    ret,             \* value get_next_message just returned to its caller
    result,          \* value the blocking public call that just returned gave
    hist,            \* history (not program state): what was sent, received, returned
    clock            \* time: [on, now, entry, refill_start_time, start_time]

vars == <<peer, rpos, read_timeout, msg_buf_in, serial_counter, signals, calls,
          responses, filter, call, pc, cmsgs, header, bytes_needed, ret, result, hist,
          clock>>

-----------------------------------------------------------------------------
(* Bounds of the model *)

\* messages the peer writes in the dispatcher specification
MaxMsgs == 3
\* messages the peer writes in the transport specification
MaxConnMsgs == 2
\* send_message calls made by the user on one connection
MaxSends == 3
\* messages the peer writes where the clock is on
MaxTimedMsgs == 2
\* the duration T of every timeout Some(T), in ticks
Budget == 2
\* longest time one syscall blocks when nothing bounds it, in ticks
MaxWait == 3
\* the clock stops being advanced here
MaxTime == 7

(* Program constants *)

HEADER_LEN == 16
BUFSIZE == 512

-----------------------------------------------------------------------------
(* Sequence helpers *)

Min(a, b) == IF a <= b THEN a ELSE b

RECURSIVE Flatten(_)
Flatten(ss) == IF ss = <<>> THEN <<>> ELSE Head(ss) \o Flatten(Tail(ss))

RECURSIVE SumLen(_)
SumLen(ss) == IF ss = <<>> THEN 0 ELSE Len(Head(ss)) + SumLen(Tail(ss))

Repeat(v, n) == [i \in 1..n |-> v]

IsPrefix(s, t) == Len(s) <= Len(t) /\ SubSeq(t, 1, Len(s)) = s

-----------------------------------------------------------------------------
(* Wire format: util::parse_u32 / util::write_u32 and the message layout   *)

LittleEndian == 108
BigEndian == 66

write_u32(v, order) ==
    LET le == << v % 256, (v \div 256) % 256, (v \div 65536) % 256, (v \div 16777216) % 256 >>
    IN  IF order = LittleEndian THEN le ELSE << le[4], le[3], le[2], le[1] >>

parse_u32(b, order) ==
    IF order = LittleEndian
    THEN b[1] + 256 * b[2] + 65536 * b[3] + 16777216 * b[4]
    ELSE b[4] + 256 * b[3] + 65536 * b[2] + 16777216 * b[1]

MessageTypes == {"Call", "Reply", "Error", "Signal", "Invalid"}

TypeCode(t) ==
    CASE t = "Invalid" -> 0 [] t = "Call" -> 1 [] t = "Reply" -> 2
      [] t = "Error" -> 3 [] t = "Signal" -> 4

TypeOfCode(c) ==
    CASE c = 1 -> "Call" [] c = 2 -> "Reply" [] c = 3 -> "Error"
      [] c = 4 -> "Signal" [] OTHER -> "Invalid"

\* line 358..365: padding between header and body
padding_between_header_and_body(header_fields_len) ==
    LET complete_header_size == HEADER_LEN + header_fields_len + 4
        p == 8 - (complete_header_size % 8)
    IN  IF p = 8 THEN 0 ELSE p

\* line 367..369: total byte count of the message being received
BytesNeeded(body_len, header_fields_len) ==
    HEADER_LEN + (body_len + header_fields_len + 4)
        + padding_between_header_and_body(header_fields_len)

\* A message as the peer marshals it.  m = [typ, serial, rserial, order, hfl,
\* body_len, fill, blocks]; rserial = 0 stands for "no response_serial".
HeaderFields(m) ==
    [i \in 1..m.hfl |->
        IF m.rserial # 0 /\ i <= 4 THEN write_u32(m.rserial, m.order)[i] ELSE m.fill]

Marshal(m) ==
    << m.order, TypeCode(m.typ), 0, 1 >>
        \o write_u32(m.body_len, m.order)
        \o write_u32(m.serial, m.order)
        \o << 0, 0, 0, 0 >>
        \o write_u32(m.hfl, m.order)
        \o HeaderFields(m)
        \o Repeat(0, padding_between_header_and_body(m.hfl))
        \o Repeat(m.fill, m.body_len)

\* unmarshal::unmarshal_header(buf, 0)
unmarshal_header(buf) ==
    IF Len(buf) < HEADER_LEN THEN [ok |-> FALSE, err |-> "NotEnoughBytes"]
    ELSE IF buf[1] \notin {LittleEndian, BigEndian} THEN [ok |-> FALSE, err |-> "InvalidHeader"]
    ELSE [ok |-> TRUE,
          byteorder |-> buf[1],
          typ |-> TypeOfCode(buf[2]),
          body_len |-> parse_u32(SubSeq(buf, 5, 8), buf[1]),
          serial |-> parse_u32(SubSeq(buf, 9, 12), buf[1])]

\* unmarshal::unmarshal_next_message(header, buf, HEADER_LEN)
unmarshal_next_message(hdr, buf) ==
    IF Len(buf) < HEADER_LEN + 4 THEN [ok |-> FALSE, err |-> "NotEnoughBytes"]
    ELSE
    LET hfl  == parse_u32(SubSeq(buf, HEADER_LEN + 1, HEADER_LEN + 4), hdr.byteorder)
        used == 4 + hfl + padding_between_header_and_body(hfl) + hdr.body_len
        resp == hdr.typ \in {"Reply", "Error"}
    IN  IF Len(buf) < HEADER_LEN + used THEN [ok |-> FALSE, err |-> "NotEnoughBytes"]
        ELSE IF resp /\ hfl < 4 THEN [ok |-> FALSE, err |-> "InvalidHeaderFields"]
        ELSE [ok |-> TRUE,
              bytes_used |-> used,
              msg |-> [typ |-> hdr.typ,
                       serial |-> hdr.serial,
                       response_serial |->
                           IF resp
                           THEN parse_u32(SubSeq(buf, HEADER_LEN + 5, HEADER_LEN + 8), hdr.byteorder)
                           ELSE 0,
                       raw_fds |-> <<>>]]

-----------------------------------------------------------------------------
(* The peer and the kernel's side of the socket *)

Timeouts == {"None", "Some"}

\* first stream offset of peer message i, and the offset just after it
MsgStart(ms, i) == SumLen([j \in 1..(i - 1) |-> Marshal(ms[j])])
MsgEnd(ms, i) == MsgStart(ms, i) + Len(Marshal(ms[i]))

\* control blocks of the stream, by absolute position, in sending order
CtrlOf(ms) ==
    Flatten([i \in 1..Len(ms) |->
        [k \in 1..Len(ms[i].blocks) |->
            [pos |-> MsgStart(ms, i) + ms[i].blocks[k].off,
             fds |-> ms[i].blocks[k].fds]]])

MakePeer(ms, chunking) ==
    [wire |-> Flatten([i \in 1..Len(ms) |-> Marshal(ms[i])]),
     ctrl |-> CtrlOf(ms),
     msgs |-> ms,
     chunking |-> chunking,
     closed |-> FALSE]

\* a peer that wrote the first n bytes of its stream and closed its end
ClosedAfter(p, n) ==
    [p EXCEPT !.wire = SubSeq(@, 1, n),
              !.ctrl = SelectSeq(@, LAMBDA b : b.pos < n),
              !.closed = TRUE]

\* control blocks attached to the stream bytes lo .. hi-1
BlocksIn(lo, hi) == SelectSeq(peer.ctrl, LAMBDA b : lo <= b.pos /\ b.pos < hi)

FdsOf(blocks) == [k \in 1..Len(blocks) |-> blocks[k].fds]

Available == Len(peer.wire) - rpos

\* everything the peer wrote has been read and the peer has closed
EndOfFile == peer.closed /\ Available = 0

\* A peer with chunking "any" writes its bytes in any pieces at any pace.  One
\* with chunking "full" writes each message whole: the receiver waits (and
\* time passes) only between messages, never inside one.
MayWait == peer.chunking = "any" \/ msg_buf_in = <<>>

\* byte counts one recvmsg with an iovec of iov_len bytes can return: at least
\* one byte, no more than is there, and never the bytes of two fd-carrying
\* skbs at once (the kernel ends a read after the skb whose fds it delivered)
Chunks(iov_len) ==
    LET cap == Min(iov_len, Available)
        all == {n \in 1..cap : Len(BlocksIn(rpos, rpos + n)) <= 1}
    IN  IF peer.chunking = "any" THEN all
        ELSE {n \in all : \A k \in all : k <= n}

\* nix recvmsg on the stream with the read timeout tmo installed: some bytes
\* (with the control block that came with them), or EAGAIN when the timeout
\* expires first.  At end of file it returns 0 bytes at once, without an
\* error.  Other errno values are not modelled.
recvmsg(iov_len, tmo) ==
    IF EndOfFile THEN {[kind |-> "data", n |-> 0, cm |-> <<>>]} ELSE
    (IF iov_len = 0
     THEN IF Available > 0 THEN {[kind |-> "data", n |-> 0, cm |-> <<>>]} ELSE {}
     ELSE {[kind |-> "data", n |-> n, cm |-> FdsOf(BlocksIn(rpos, rpos + n))] :
              n \in Chunks(iov_len)})
    \cup (IF tmo = "Some" /\ MayWait THEN {[kind |-> "TimedOut"]} ELSE {})

\* calc_timeout_left: may the deadline have passed?
calc_timeout_left_expired(tmo) == IF tmo = "Some" THEN {TRUE, FALSE} ELSE {FALSE}

\* lines 465..480 against a start_time: with the clock on, expired exactly
\* when elapsed >= timeout
calc_timeout_left(start_time, tmo) ==
    IF clock.on
    THEN {tmo = "Some" /\ clock.now - start_time >= Budget}
    ELSE calc_timeout_left_expired(tmo)

\* the same inside get_next_message, where no time has passed since the last
\* look at the clock unless the receiver had to wait
calc_timeout_left_expired_in_message(tmo) ==
    IF clock.on THEN calc_timeout_left(clock.start_time, tmo)
    ELSE IF MayWait THEN calc_timeout_left_expired(tmo) ELSE {FALSE}

\* a timeout of None
Unbounded == -1

\* time_left of calc_timeout_left: the time a syscall given that timeout may
\* block
time_left(start_time, tmo) ==
    IF tmo = "Some" THEN Budget - (clock.now - start_time) ELSE Unbounded

\* How long a blocking syscall takes.  One that ends by its timeout takes
\* exactly the time `left` it was given; one that ends otherwise takes less
\* than that, and at most MaxWait when nothing bounds it; none at all when
\* it does not have to wait.
Delays(timed_out, left, may_wait) ==
    IF ~clock.on THEN {0}
    ELSE IF timed_out THEN {d \in {left} : clock.now + d <= MaxTime}
    ELSE IF ~may_wait THEN {0}
    ELSE {d \in 0..MaxWait : clock.now + d <= MaxTime /\ (left = Unbounded \/ d < left)}

Elapse(d) == [clock EXCEPT !.now = @ + d]

NoClock == [on |-> FALSE, now |-> 0, entry |-> 0, refill_start_time |-> 0, start_time |-> 0]

ClockOn == [NoClock EXCEPT !.on = TRUE]

-----------------------------------------------------------------------------
(* Conn::refill_buffer *)

\* a read that is not capped at the bytes still needed
bytes_to_read_uncapped(max_buffer_size) == BUFSIZE

bytes_to_read(max_buffer_size) == max_buffer_size - Len(msg_buf_in)

\* The outcomes of one refill_buffer call.  max_buffer_size < len underflows a
\* usize: a build with overflow checks panics, one without reads BUFSIZE bytes.
refill_buffer(max_buffer_size, tmo) ==
    LET btr == bytes_to_read(max_buffer_size)
    IN  IF btr < 0
        THEN {[kind |-> "panic"]} \cup recvmsg(BUFSIZE, tmo)
        ELSE recvmsg(Min(btr, BUFSIZE), tmo)

\* the read timeout after refill_buffer: restored only on the success path
TimeoutAfterRefill(o, tmo) == IF o.kind = "data" THEN read_timeout ELSE tmo

\* how long the recvmsg of refill_buffer blocked, given the time left of the
\* get_next_message call as its timeout
RefillDelays(o) ==
    Delays(o.kind = "TimedOut", time_left(clock.start_time, call.timeout), MayWait)

BufAfterRefill(o) ==
    IF o.kind = "data"
    THEN msg_buf_in \o SubSeq(peer.wire, rpos + 1, rpos + o.n)
    ELSE msg_buf_in

-----------------------------------------------------------------------------
(* History bookkeeping *)

\* hist.failure: "other" once get_next_message failed with anything but
\* TimedOut; before that, "timeout" once a bare get_next_message call of the
\* user timed out, else "none"
Worse(f, err) ==
    IF err # "TimedOut" THEN "other"
    ELSE IF call.op = "get_next_message" /\ f = "none" THEN "timeout"
    ELSE f

\* get_next_message returns r to its caller
GnmReturns(r, rp) ==
    /\ ret' = r
    /\ pc' = "gnm_ret"
    /\ hist' = IF r.ok
               THEN [hist EXCEPT !.delivered = Append(@, [from |-> hist.buf_start,
                                                         to |-> rp,
                                                         serial |-> r.msg.serial,
                                                         raw_fds |-> r.msg.raw_fds]),
                                 !.buf_start = rp]
               ELSE [hist EXCEPT !.failure = Worse(@, r.err)]

Err(e) == [ok |-> FALSE, err |-> e]

\* hist.eof_reads: the parity of the number of recvmsg calls that returned 0
\* bytes at end of file
AfterRead(h, o) ==
    IF EndOfFile /\ o.kind = "data" /\ o.n = 0
    THEN [h EXCEPT !.eof_reads = 1 - @]
    ELSE h

NoHeader == [ok |-> FALSE, err |-> "NotEnoughBytes"]

-----------------------------------------------------------------------------
(* Conn::get_next_message *)

\* the buffer not cleared after a message was unmarshalled
BufferLeftAsIs == msg_buf_in

\* line 383
ClearedBuffer == <<>>

\* lines 336..347, header incomplete: one pass of the header loop (line 340
\* when the bytes there are do not parse as a header)
GnmHeaderRefill ==
    /\ pc = "gnm_header"
    /\ ~unmarshal_header(msg_buf_in).ok
    /\ UNCHANGED <<peer, serial_counter, signals, calls, responses, filter, call,
                   header, bytes_needed, result>>
    /\ IF unmarshal_header(msg_buf_in) # NoHeader
       THEN /\ GnmReturns(Err("UnmarshalError"), rpos)
            /\ UNCHANGED <<rpos, read_timeout, msg_buf_in, cmsgs, clock>>
       ELSE
       \E expired \in calc_timeout_left_expired_in_message(call.timeout) :
        IF expired
        THEN /\ GnmReturns(Err("TimedOut"), rpos)
             /\ UNCHANGED <<rpos, read_timeout, msg_buf_in, cmsgs, clock>>
        ELSE \E o \in refill_buffer(HEADER_LEN, call.timeout) :
             /\ \E d \in RefillDelays(o) : clock' = Elapse(d)
             /\ read_timeout' = TimeoutAfterRefill(o, call.timeout)
             /\ msg_buf_in' = BufAfterRefill(o)
             /\ IF o.kind = "data"
                THEN /\ rpos' = rpos + o.n
                     /\ cmsgs' = cmsgs \o o.cm
                     /\ hist' = AfterRead(hist, o)
                     /\ UNCHANGED <<pc, ret>>
                ELSE IF o.kind = "panic"
                THEN /\ pc' = "panicked"
                     /\ UNCHANGED <<rpos, cmsgs, ret, hist>>
                ELSE /\ GnmReturns(Err(o.kind), rpos)
                     /\ UNCHANGED <<rpos, cmsgs>>

\* how long read_exact blocked: the socket's own read timeout is what bounds
\* it (a timeout left there by an earlier call has lasted up to Budget)
ReadExactDelays(timed_out) ==
    Delays(timed_out, IF read_timeout = "Some" THEN Budget ELSE Unbounded, MayWait)

\* lines 349..369, header complete: read_exact of the 4 length bytes with a
\* plain read (control blocks attached to them are discarded by the kernel),
\* then the length arithmetic.  With a read timeout left on the socket the
\* read can fail after k bytes were taken off the stream.  (The lengths of the
\* peers of this action fit 16 bits; bytes_needed_u32 has the full width.)
GnmReadFieldsLen ==
    /\ pc = "gnm_header"
    /\ unmarshal_header(msg_buf_in).ok
    /\ UNCHANGED <<peer, read_timeout, serial_counter, signals, calls, responses,
                   filter, call, cmsgs, result>>
    /\ \/ /\ Available >= 4
          /\ LET h == unmarshal_header(msg_buf_in)
                 raw == SubSeq(peer.wire, rpos + 1, rpos + 4)
                 header_fields_len == parse_u32(raw, h.byteorder)
             IN  /\ header' = h
                 /\ msg_buf_in' = msg_buf_in \o write_u32(header_fields_len, h.byteorder)
                 /\ bytes_needed' = BytesNeeded(h.body_len, header_fields_len)
          /\ rpos' = rpos + 4
          /\ pc' = "gnm_body"
          /\ \E d \in ReadExactDelays(FALSE) : clock' = Elapse(d)
          /\ UNCHANGED <<ret, hist>>
       \/ /\ read_timeout = "Some"
          /\ MayWait
          /\ \E d \in ReadExactDelays(TRUE) : clock' = Elapse(d)
          /\ \E k \in 0..Min(3, Available) :
                /\ rpos' = rpos + k
                /\ GnmReturns(Err("IoError"), rpos + k)
          /\ UNCHANGED <<msg_buf_in, header, bytes_needed>>
       \* the peer closed before it wrote the 4 bytes: read_exact takes what
       \* is there and fails with UnexpectedEof
       \/ /\ peer.closed
          /\ Available < 4
          /\ rpos' = rpos + Available
          /\ GnmReturns(Err("IoError"), rpos + Available)
          /\ UNCHANGED <<msg_buf_in, header, bytes_needed, clock>>

\* lines 378..396: the buffer holds bytes_needed bytes
GnmFinish(buf, rp, cm) ==
    LET u == unmarshal_next_message(header, buf)
    IN  IF ~u.ok
        THEN /\ GnmReturns(Err("UnmarshalError"), rp)
             /\ msg_buf_in' = buf
        ELSE IF bytes_needed # u.bytes_used + HEADER_LEN
        THEN /\ GnmReturns(Err("NotAllBytesUsed"), rp)
             /\ msg_buf_in' = buf
        ELSE /\ GnmReturns([ok |-> TRUE,
                            msg |-> [u.msg EXCEPT !.raw_fds = Flatten(cm)]], rp)
             /\ msg_buf_in' = ClearedBuffer

\* lines 370..377: one pass of the body loop, and the tail of the function
\* when the pass completes the message
GnmBodyRefill ==
    /\ pc = "gnm_body"
    /\ UNCHANGED <<peer, serial_counter, signals, calls, responses, filter, call,
                   header, bytes_needed, result>>
    /\ \E expired \in calc_timeout_left_expired_in_message(call.timeout) :
        IF expired
        THEN /\ GnmReturns(Err("TimedOut"), rpos)
             /\ UNCHANGED <<rpos, read_timeout, msg_buf_in, cmsgs, clock>>
        ELSE \E o \in refill_buffer(bytes_needed, call.timeout) :
             /\ \E d \in RefillDelays(o) : clock' = Elapse(d)
             /\ read_timeout' = TimeoutAfterRefill(o, call.timeout)
             /\ IF o.kind = "data"
                THEN /\ rpos' = rpos + o.n
                     /\ cmsgs' = cmsgs \o o.cm
                     /\ IF Len(BufAfterRefill(o)) = bytes_needed
                        THEN GnmFinish(BufAfterRefill(o), rpos + o.n, cmsgs \o o.cm)
                        ELSE /\ msg_buf_in' = BufAfterRefill(o)
                             /\ hist' = AfterRead(hist, o)
                             /\ UNCHANGED <<pc, ret>>
                ELSE IF o.kind = "panic"
                THEN /\ pc' = "panicked"
                     /\ UNCHANGED <<rpos, msg_buf_in, cmsgs, ret, hist>>
                ELSE /\ GnmReturns(Err(o.kind), rpos)
                     /\ UNCHANGED <<rpos, msg_buf_in, cmsgs>>

-----------------------------------------------------------------------------
(* Conn::send_message *)

\* line 280
InitialSerial == 1

\* lines 406..409: a message without a serial (0 here) is stamped with the counter
StampedSerial(msg) == IF msg.serial = 0 THEN serial_counter ELSE msg.serial

\* the counter not advanced after stamping
CounterNotAdvanced(msg) == serial_counter

\* the counter advanced for the wrong messages
CounterAdvancedOnPreset(msg) == IF msg.serial # 0 THEN serial_counter + 1 ELSE serial_counter

CounterAfterSend(msg) == IF msg.serial = 0 THEN serial_counter + 1 ELSE serial_counter

\* lines 422..430: what the single sendmsg can do.  A short write fails the
\* assert_eq; an error returns through `?` as NixError.
sendmsg == {"sent", "short", "NixError"}

\* how long sendmsg blocked while the socket could not take the data: line
\* 421 sets the read timeout, which does not bound a write, and nothing sets
\* a write timeout
SendDelays(msg) == IF msg.marshals THEN Delays(FALSE, Unbounded, TRUE) ELSE {0}

\* what send_message returns: the stamped message, or the error
SendReturn(msg, o) ==
    IF ~msg.marshals THEN Err("MarshalError")
    ELSE IF o = "sent" THEN [ok |-> TRUE, msg |-> [msg EXCEPT !.serial = StampedSerial(msg)]]
    ELSE Err(o)

\* the read timeout after send_message: restored only when sendmsg succeeded
TimeoutAfterSend(msg, o, tmo) ==
    IF ~msg.marshals \/ o \in {"sent", "short"} THEN read_timeout ELSE tmo

HistAfterSend(h, msg, o) ==
    [h EXCEPT !.sends = Append(@, [preset |-> msg.serial,
                                   serial |-> StampedSerial(msg),
                                   ok |-> SendReturn(msg, o).ok]),
              !.sent = IF msg.marshals /\ o \in {"sent", "short"}
                       THEN Append(@, [typ |-> msg.typ,
                                       serial |-> StampedSerial(msg),
                                       response_serial |-> msg.response_serial])
                       ELSE @]

-----------------------------------------------------------------------------
(* The user of a bare Conn *)

Idle == [op |-> "idle", serial |-> 0, timeout |-> "None"]

NoReturn == Err("none")

NoResult == [op |-> "none", r |-> NoReturn]

UserMsgs ==
    [typ : {"Call"}, serial : {0, 1, 2}, response_serial : {0},
     raw_fds : {<<>>}, marshals : BOOLEAN]

\* the locals of get_next_message go out of scope
LocalsDropped ==
    /\ cmsgs' = <<>>
    /\ header' = NoHeader
    /\ bytes_needed' = 0
    /\ ret' = NoReturn

\* A caller retries after TimedOut; any other error ends its use of the
\* connection for receiving ("framing may be out of sync").
Usable == hist.failure # "other"

ConnGetNextMessage(tmo) ==
    /\ pc = "idle"
    /\ Usable
    /\ result' = NoResult
    /\ call' = [op |-> "get_next_message", serial |-> 0, timeout |-> tmo]
    /\ pc' = "gnm_header"
    /\ cmsgs' = <<>>
    /\ clock' = [clock EXCEPT !.entry = clock.now, !.start_time = clock.now]
    /\ UNCHANGED <<peer, rpos, read_timeout, msg_buf_in, serial_counter, signals, calls,
                   responses, filter, header, bytes_needed, ret, hist>>

ConnGnmReturn ==
    /\ pc = "gnm_ret"
    /\ call.op = "get_next_message"
    /\ result' = [op |-> "get_next_message", r |-> ret]
    /\ pc' = "idle"
    /\ call' = Idle
    /\ LocalsDropped
    /\ UNCHANGED <<peer, rpos, read_timeout, msg_buf_in, serial_counter, signals, calls,
                   responses, filter, hist, clock>>

ConnSendMessage(msg, tmo) ==
    /\ pc = "idle"
    /\ Len(hist.sends) < MaxSends
    /\ \E o \in sendmsg :
        /\ serial_counter' = CounterAfterSend(msg)
        /\ read_timeout' = TimeoutAfterSend(msg, o, tmo)
        /\ hist' = HistAfterSend(hist, msg, o)
        /\ \E d \in SendDelays(msg) : clock' = [Elapse(d) EXCEPT !.entry = clock.now]
        /\ IF msg.marshals /\ o = "short"
           THEN pc' = "panicked" /\ UNCHANGED result
           ELSE /\ result' = [op |-> "send_message", r |-> SendReturn(msg, o)]
                /\ UNCHANGED pc
    /\ UNCHANGED <<peer, rpos, msg_buf_in, signals, calls, responses, filter, call,
                   cmsgs, header, bytes_needed, ret>>

-----------------------------------------------------------------------------
(* Streams the peer writes to a bare Conn: messages of several sizes and
   byte orders, their descriptors attached to one or two control blocks at
   several offsets of the message *)

ConnShapes ==
    { [order |-> LittleEndian, hfl |-> 0, body_len |-> 0, fill |-> 0],
      [order |-> LittleEndian, hfl |-> 8, body_len |-> 4, fill |-> 0],
      [order |-> BigEndian,    hfl |-> 4, body_len |-> 4, fill |-> 1] }

\* the first message takes every shape; the ones after it the big-endian one
ShapesFor(i) == IF i = 1 THEN ConnShapes ELSE {s \in ConnShapes : s.order = BigEndian}

\* offsets, within its message, of the byte a control block arrives with
BlockOffsets(i) == IF i = 1 THEN {0, 16, 20} ELSE {0, 16}

FdsFor(i) == IF i = 1 THEN <<11, 12>> ELSE << 10 * i + 1 >>

Layouts(i) ==
    LET fds == FdsFor(i)
    IN  { << [off |-> o, fds |-> fds] >> : o \in BlockOffsets(i) }
        \cup (IF Len(fds) = 2
              THEN { << [off |-> p[1], fds |-> << fds[1] >>],
                        [off |-> p[2], fds |-> << fds[2] >>] >> :
                        p \in {q \in BlockOffsets(i) \X BlockOffsets(i) : q[1] < q[2]} }
              ELSE {})

ConnMsgs(i) ==
    { [typ |-> "Signal", serial |-> i, rserial |-> 0, order |-> s.order, hfl |-> s.hfl,
       body_len |-> s.body_len, fill |-> s.fill, blocks |-> b] :
          s \in ShapesFor(i), b \in Layouts(i) }

RECURSIVE StreamsOf(_, _, _)
\* all streams of exactly n messages, message i drawn from M(i)
StreamsOf(M(_), i, n) ==
    IF i > n THEN { <<>> }
    ELSE { <<m>> \o rest : m \in M(i), rest \in StreamsOf(M, i + 1, n) }

\* a peer that writes something that is no D-Bus header
GarbageStream ==
    << [typ |-> "Signal", serial |-> 1, rserial |-> 0, order |-> 0, hfl |-> 0,
        body_len |-> 0, fill |-> 0, blocks |-> <<>>] >>

ConnStreams ==
    UNION { StreamsOf(ConnMsgs, 1, n) : n \in 1..MaxConnMsgs } \cup { GarbageStream }

EmptyMap == [k \in {} |-> k]

InitHist ==
    [delivered |-> <<>>, buf_start |-> 0, failure |-> "none",
     sends |-> <<>>, sent |-> <<>>, routed |-> <<>>, returned |-> <<>>,
     handshake |-> <<>>, eof_reads |-> 0]

InitWith(p, c) ==
    /\ peer = p
    /\ rpos = 0
    /\ read_timeout = "None"
    /\ msg_buf_in = <<>>
    /\ serial_counter = InitialSerial
    /\ signals = <<>>
    /\ calls = <<>>
    /\ responses = EmptyMap
    /\ filter = MessageTypes
    /\ call = Idle
    /\ pc = "idle"
    /\ cmsgs = <<>>
    /\ header = NoHeader
    /\ bytes_needed = 0
    /\ ret = NoReturn
    /\ result = NoResult
    /\ hist = InitHist
    /\ clock = c

InitConn(p) == InitWith(p, NoClock)

InitC == \E ms \in ConnStreams : InitConn(MakePeer(ms, "any"))

NextC ==
    \/ \E tmo \in Timeouts : ConnGetNextMessage(tmo)
    \/ GnmHeaderRefill
    \/ GnmReadFieldsLen
    \/ GnmBodyRefill
    \/ ConnGnmReturn

SpecConn == InitC /\ [][NextC]_vars

-----------------------------------------------------------------------------
(* A Conn that sends as well: one small message to receive, whole reads *)

SendStream ==
    << [typ |-> "Signal", serial |-> 1, rserial |-> 0, order |-> LittleEndian, hfl |-> 0,
        body_len |-> 0, fill |-> 0, blocks |-> <<>>] >>

InitS == InitConn(MakePeer(SendStream, "full"))

NextS ==
    \/ NextC
    \/ \E msg \in UserMsgs, tmo \in Timeouts : ConnSendMessage(msg, tmo)

SpecSend == InitS /\ [][NextS]_vars

-----------------------------------------------------------------------------
(* A peer that closes its end: it wrote any prefix of one message, or the
   whole message, and closed.  The thread inside get_next_message keeps
   running, so a step of the call that is possible is eventually taken. *)

InitE ==
    \E n \in 0..Len(Marshal(SendStream[1])) :
        InitConn(ClosedAfter(MakePeer(SendStream, "any"), n))

InCall == GnmHeaderRefill \/ GnmReadFieldsLen \/ GnmBodyRefill \/ ConnGnmReturn

SpecClose == InitE /\ [][NextC]_vars /\ WF_vars(InCall)

-----------------------------------------------------------------------------
(* The length arithmetic of get_next_message at full width.  A length is kept
   as two 16-bit limbs, [hi, lo] standing for hi * 65536 + lo: a u32 has
   hi < 65536, a usize (64 bits) may have more. *)

Limb == 65536

Norm(hi, lo) == [hi |-> hi + (lo \div Limb), lo |-> lo % Limb]

Add(x, y) == Norm(x.hi + y.hi, x.lo + y.lo)

AddSmall(x, n) == Norm(x.hi, x.lo + n)

\* a sum that does not fit a u32
Overflows(x) == x.hi >= Limb

\* what a u32 addition without overflow checks leaves
Wrapped(x) == [hi |-> x.hi % Limb, lo |-> x.lo]

\* lines 358..365 on limbs (the padding depends on the low bits only)
PaddingOf(header_fields_len) == padding_between_header_and_body(header_fields_len.lo)

\* lines 367..369: (header.body_len + header_fields_len + 4) is added in u32,
\* then widened and added to HEADER_LEN and the padding in usize.  When the
\* u32 sum overflows, a build with overflow checks panics and one without
\* goes on with the wrapped sum.
bytes_needed_u32(body_len, header_fields_len) ==
    LET sum == AddSmall(Add(body_len, header_fields_len), 4)
        rest == HEADER_LEN + PaddingOf(header_fields_len)
    IN  IF Overflows(sum)
        THEN {[kind |-> "panic"], [kind |-> "value", v |-> AddSmall(Wrapped(sum), rest)]}
        ELSE {[kind |-> "value", v |-> AddSmall(sum, rest)]}

\* lengths the peer can put on the wire: small ones, ones around the limb
\* boundary and ones near the top of the 32-bit range
LengthSamples ==
    { [hi |-> h, lo |-> l] : h \in {0, 1, 32768, 65535},
                             l \in {0, 1, 4, 7, 8, 65528, 65532, 65535} }

\* the header and the header-fields length have been read: lines 356..369
LengthArithmetic ==
    /\ pc = "gnm_len"
    /\ \E o \in bytes_needed_u32(peer.msgs[1].body_len, peer.msgs[1].hfl) :
          IF o.kind = "panic"
          THEN pc' = "panicked" /\ UNCHANGED bytes_needed
          ELSE pc' = "gnm_len_done" /\ bytes_needed' = o.v
    /\ UNCHANGED <<peer, rpos, read_timeout, msg_buf_in, serial_counter, signals, calls,
                   responses, filter, call, cmsgs, header, ret, result, hist, clock>>

InitL ==
    /\ \E b \in LengthSamples, h \in LengthSamples :
          peer = [wire |-> <<>>, ctrl |-> <<>>, chunking |-> "full", closed |-> FALSE,
                  msgs |-> << [typ |-> "Signal", serial |-> 1, rserial |-> 0,
                               order |-> LittleEndian, hfl |-> h, body_len |-> b,
                               fill |-> 0, blocks |-> <<>>] >>]
    /\ rpos = 0
    /\ read_timeout = "None"
    /\ msg_buf_in = <<>>
    /\ serial_counter = InitialSerial
    /\ signals = <<>>
    /\ calls = <<>>
    /\ responses = EmptyMap
    /\ filter = MessageTypes
    /\ call = [op |-> "get_next_message", serial |-> 0, timeout |-> "None"]
    /\ pc = "gnm_len"
    /\ cmsgs = <<>>
    /\ header = NoHeader
    /\ bytes_needed = Norm(0, 0)
    /\ ret = NoReturn
    /\ result = NoResult
    /\ hist = InitHist
    /\ clock = NoClock

SpecLen == InitL /\ [][LengthArithmetic]_vars

-----------------------------------------------------------------------------
(* Conn::connect_to_bus_with_byteorder *)

\* what auth::do_auth and auth::negotiate_unix_fds return: an AuthResult, or
\* an io error through `?`
AuthResults == {"Ok", "Rejected", "IoError"}

\* what UnixStream::connect and auth::send_begin return
IoResults == {"Ok", "IoError"}

\* the fd negotiation run for every connection
NegotiatesAlways(with_unix_fd) == TRUE

\* line 265: if with_unix_fd
Negotiates(with_unix_fd) == with_unix_fd

Step(name, r) == [step |-> name, r |-> r]

\* lines 258..281 as a function of what the four calls return: the calls made
\* to the stream, in order, and the value connect returns
Handshake(with_unix_fd, c, a, n, b) ==
    IF c # "Ok" THEN [steps |-> <<>>, r |-> "IoError"]
    ELSE IF a # "Ok"
    THEN [steps |-> <<Step("do_auth", a)>>,
          r |-> IF a = "Rejected" THEN "AuthFailed" ELSE "IoError"]
    ELSE IF Negotiates(with_unix_fd) /\ n # "Ok"
    THEN [steps |-> <<Step("do_auth", a), Step("negotiate_unix_fds", n)>>,
          r |-> IF n = "Rejected" THEN "UnixFdNegotiationFailed" ELSE "IoError"]
    ELSE [steps |-> <<Step("do_auth", a)>>
                    \o (IF Negotiates(with_unix_fd)
                        THEN <<Step("negotiate_unix_fds", n)>> ELSE <<>>)
                    \o <<Step("send_begin", b)>>,
          r |-> IF b = "Ok" THEN "Ok" ELSE "IoError"]

\* before connect has returned Ok there is no Conn: its fields hold nothing
NoBuffer == << -1 >>

NoCounter == 0

Connected == [ok |-> TRUE, msg |-> "Conn"]

connect_to_bus_with_byteorder(with_unix_fd) ==
    /\ pc = "unconnected"
    /\ \E c \in IoResults, a \in AuthResults, n \in AuthResults, b \in IoResults :
        LET h == Handshake(with_unix_fd, c, a, n, b)
        IN  /\ hist' = [hist EXCEPT !.handshake =
                            <<Step("connect", with_unix_fd)>> \o h.steps]
            /\ IF h.r = "Ok"
               THEN /\ msg_buf_in' = <<>>
                    /\ serial_counter' = InitialSerial
                    /\ result' = [op |-> "connect", r |-> Connected]
                    /\ pc' = "idle"
               ELSE /\ result' = [op |-> "connect", r |-> Err(h.r)]
                    /\ pc' = "connect_failed"
                    /\ UNCHANGED <<msg_buf_in, serial_counter>>
    /\ UNCHANGED <<peer, rpos, read_timeout, signals, calls, responses, filter, call,
                   cmsgs, header, bytes_needed, ret, clock>>

InitK ==
    /\ peer = MakePeer(SendStream, "full")
    /\ rpos = 0
    /\ read_timeout = "None"
    /\ msg_buf_in = NoBuffer
    /\ serial_counter = NoCounter
    /\ signals = <<>>
    /\ calls = <<>>
    /\ responses = EmptyMap
    /\ filter = MessageTypes
    /\ call = Idle
    /\ pc = "unconnected"
    /\ cmsgs = <<>>
    /\ header = NoHeader
    /\ bytes_needed = 0
    /\ ret = NoReturn
    /\ result = NoResult
    /\ hist = InitHist
    /\ clock = NoClock

NextK ==
    \/ \E with_unix_fd \in BOOLEAN : connect_to_bus_with_byteorder(with_unix_fd)
    \/ NextS

SpecConnect == InitK /\ [][NextK]_vars

\* receiving against the clock: one message whose bytes arrive in any pieces
\* at any pace
InitCT == InitWith(MakePeer(SendStream, "any"), ClockOn)

SpecConnTimed == InitCT /\ [][NextC]_vars

\* the same against the clock, every send_message called with Some(T)
InitST == InitWith(MakePeer(SendStream, "full"), ClockOn)

NextST ==
    \/ NextC
    \/ \E msg \in UserMsgs : ConnSendMessage(msg, "Some")

SpecSendTimed == InitST /\ [][NextST]_vars

-----------------------------------------------------------------------------
(* RpcConn: the collections *)

\* VecDeque::push_back, pop_front
push_front(q, m) == <<m>> \o q

push_back(q, m) == Append(q, m)

pop_front(q) == Tail(q)

front(q) == Head(q)

\* an insert that keeps the entry already stored under the key
insert_keep_first(map, key, m) ==
    [k \in DOMAIN map \cup {key} |-> IF k \in DOMAIN map THEN map[k] ELSE m]

\* HashMap::insert, remove
insert(map, key, m) ==
    [k \in DOMAIN map \cup {key} |-> IF k = key THEN m ELSE map[k]]

remove(map, key) == [k \in DOMAIN map \ {key} |-> map[k]]

Filters == { MessageTypes, {"Signal"} }

\* standard_messages::unknown_method(&msg)
unknown_method(msg) ==
    [typ |-> "Error", serial |-> 0, response_serial |-> msg.serial,
     raw_fds |-> <<>>, marshals |-> TRUE]

Waits == {"wait_response", "wait_signal", "wait_call"}

ResponseSerials == {1, 2}

-----------------------------------------------------------------------------
(* RpcConn: the public calls *)

Returned(h, op, m) == [h EXCEPT !.returned = Append(@, [op |-> op, msg |-> m])]

Some(m) == [ok |-> TRUE, msg |-> m]

\* line 84.  The user installs its filter before it starts to receive.
set_filter(f) ==
    /\ pc = "idle"
    /\ rpos = 0
    /\ result' = NoResult
    /\ f # filter
    /\ filter' = f
    /\ UNCHANGED <<peer, rpos, read_timeout, msg_buf_in, serial_counter, signals, calls,
                   responses, call, pc, cmsgs, header, bytes_needed, ret, hist, clock>>

\* lines 89..91.  What a try_get_* hands out is recorded in hist.returned;
\* on an empty collection it returns None and changes nothing.
try_get_response(serial) ==
    /\ pc = "idle"
    /\ result' = NoResult
    /\ responses' = remove(responses, serial)
    /\ IF serial \in DOMAIN responses
       THEN hist' = Returned(hist, "response", responses[serial])
       ELSE UNCHANGED hist
    /\ UNCHANGED <<peer, rpos, read_timeout, msg_buf_in, serial_counter, signals, calls,
                   filter, call, pc, cmsgs, header, bytes_needed, ret, clock>>

\* lines 108..110
try_get_signal ==
    /\ pc = "idle"
    /\ result' = NoResult
    /\ IF signals # <<>>
       THEN /\ signals' = pop_front(signals)
            /\ hist' = Returned(hist, "signal", front(signals))
       ELSE UNCHANGED <<signals, hist>>
    /\ UNCHANGED <<peer, rpos, read_timeout, msg_buf_in, serial_counter, calls, responses,
                   filter, call, pc, cmsgs, header, bytes_needed, ret, clock>>

\* lines 123..125
try_get_call ==
    /\ pc = "idle"
    /\ result' = NoResult
    /\ IF calls # <<>>
       THEN /\ calls' = pop_front(calls)
            /\ hist' = Returned(hist, "call", front(calls))
       ELSE UNCHANGED <<calls, hist>>
    /\ UNCHANGED <<peer, rpos, read_timeout, msg_buf_in, serial_counter, signals, responses,
                   filter, call, pc, cmsgs, header, bytes_needed, ret, clock>>

\* entry of wait_response / wait_signal / wait_call
WaitEnter(op, serial, tmo) ==
    /\ pc = "idle"
    /\ Usable
    /\ call' = [op |-> op, serial |-> serial, timeout |-> tmo]
    /\ pc' = "wait_loop"
    /\ result' = NoResult
    /\ clock' = [clock EXCEPT !.entry = clock.now]
    /\ UNCHANGED <<peer, rpos, read_timeout, msg_buf_in, serial_counter, signals, calls,
                   responses, filter, cmsgs, header, bytes_needed, ret, hist>>

\* the public call returns r to the user
WaitReturns(r) ==
    /\ result' = [op |-> call.op, r |-> r]
    /\ call' = Idle
    /\ pc' = "idle"
    /\ LocalsDropped

\* lines 99..104, 114..119, 129..134: top of the wait loop; the try_get_* of
\* the category, and refill when it finds nothing
WaitLoop ==
    /\ pc = "wait_loop"
    /\ UNCHANGED <<peer, rpos, read_timeout, msg_buf_in, serial_counter, filter>>
    /\ CASE call.op = "wait_response" ->
              /\ responses' = remove(responses, call.serial)
              /\ UNCHANGED <<signals, calls>>
              /\ IF call.serial \in DOMAIN responses
                 THEN /\ WaitReturns(Some(responses[call.serial]))
                      /\ hist' = Returned(hist, "response", responses[call.serial])
                 ELSE /\ pc' = "refill_loop"
                      /\ UNCHANGED <<call, cmsgs, header, bytes_needed, ret, result, hist>>
         [] call.op = "wait_signal" ->
              /\ UNCHANGED <<responses, calls>>
              /\ IF signals # <<>>
                 THEN /\ signals' = pop_front(signals)
                      /\ WaitReturns(Some(front(signals)))
                      /\ hist' = Returned(hist, "signal", front(signals))
                 ELSE /\ pc' = "refill_loop"
                      /\ UNCHANGED <<signals, call, cmsgs, header, bytes_needed, ret,
                                     result, hist>>
         [] call.op = "wait_call" ->
              /\ UNCHANGED <<responses, signals>>
              /\ IF calls # <<>>
                 THEN /\ calls' = pop_front(calls)
                      /\ WaitReturns(Some(front(calls)))
                      /\ hist' = Returned(hist, "call", front(calls))
                 ELSE /\ pc' = "refill_loop"
                      /\ UNCHANGED <<calls, call, cmsgs, header, bytes_needed, ret,
                                     result, hist>>
    \* line 149: refill takes its start_time when it is entered
    /\ clock' = IF pc' = "refill_loop"
                THEN [clock EXCEPT !.refill_start_time = clock.now]
                ELSE clock

-----------------------------------------------------------------------------
(* RpcConn::refill *)

\* lines 150..153: top of the refill loop
RefillFetch ==
    /\ pc = "refill_loop"
    /\ UNCHANGED <<peer, rpos, read_timeout, msg_buf_in, serial_counter, signals, calls,
                   responses, filter, hist>>
    /\ \E expired \in calc_timeout_left(clock.refill_start_time, call.timeout) :
        IF expired
        THEN WaitReturns(Err("TimedOut")) /\ UNCHANGED clock
        ELSE /\ pc' = "gnm_header"
             /\ cmsgs' = <<>>
             /\ clock' = [clock EXCEPT !.start_time = clock.now]
             /\ UNCHANGED <<call, header, bytes_needed, ret, result>>

\* a filter that lets everything through
AcceptsAll(msg) == TRUE

\* line 155: self.filter.as_ref()(&msg)
Accepts(msg) == msg.typ \in filter

\* no type is treated as unexpected
UnexpectedTypeNever(msg) == FALSE

\* lines 160 and 179: the match arm of MessageType::Invalid
UnexpectedType(msg) == msg.typ = "Invalid"

\* only the category being waited for is kept
SignalsKeptForSignalWaiter(msg) ==
    IF msg.typ = "Signal" /\ call.op = "wait_signal" THEN push_back(signals, msg) ELSE signals

\* lines 156..170: where an accepted message goes
CallsAfterAccept(msg) == IF msg.typ = "Call" THEN push_back(calls, msg) ELSE calls

SignalsAfterAccept(msg) == IF msg.typ = "Signal" THEN push_back(signals, msg) ELSE signals

\* a response stored under its own serial
ResponsesKeyedByOwnSerial(msg) ==
    IF msg.typ \in {"Error", "Reply"}
    THEN insert(responses, msg.serial, msg)
    ELSE responses

ResponsesAfterAccept(msg) ==
    IF msg.typ \in {"Error", "Reply"}
    THEN insert(responses, msg.response_serial, msg)
    ELSE responses

Routed(h, msg, accepted, err) ==
    [h EXCEPT !.routed = Append(@, [msg |-> msg, accepted |-> accepted, err |-> err])]

\* lines 151..190: get_next_message has returned inside refill
RefillRoute ==
    /\ pc = "gnm_ret"
    /\ call.op \in Waits
    /\ UNCHANGED <<peer, rpos, msg_buf_in, filter>>
    /\ IF ~ret.ok
       THEN /\ WaitReturns(ret)
            /\ UNCHANGED <<read_timeout, serial_counter, signals, calls, responses, hist,
                           clock>>
       ELSE IF Accepts(ret.msg)
       THEN /\ UNCHANGED <<read_timeout, serial_counter, clock>>
            /\ IF UnexpectedType(ret.msg)
               THEN /\ WaitReturns(Err("UnexpectedTypeReceived"))
                    /\ hist' = Routed(hist, ret.msg, TRUE, "UnexpectedTypeReceived")
                    /\ UNCHANGED <<signals, calls, responses>>
               ELSE /\ calls' = CallsAfterAccept(ret.msg)
                    /\ signals' = SignalsAfterAccept(ret.msg)
                    /\ responses' = ResponsesAfterAccept(ret.msg)
                    /\ hist' = Routed(hist, ret.msg, TRUE, "")
                    /\ pc' = "wait_loop"
                    /\ LocalsDropped
                    /\ UNCHANGED <<call, result>>
       ELSE /\ UNCHANGED <<signals, calls, responses>>
            /\ CASE ret.msg.typ = "Call" ->
                      \E expired \in calc_timeout_left(clock.refill_start_time,
                                                        call.timeout) :
                        IF expired
                        THEN /\ WaitReturns(Err("TimedOut"))
                             /\ hist' = Routed(hist, ret.msg, FALSE, "TimedOut")
                             /\ UNCHANGED <<read_timeout, serial_counter, clock>>
                        ELSE \E o \in sendmsg :
                             LET reply == unknown_method(ret.msg)
                                 h == HistAfterSend(hist, reply, o)
                             IN  /\ serial_counter' = CounterAfterSend(reply)
                                 /\ \E d \in SendDelays(reply) : clock' = Elapse(d)
                                 /\ read_timeout' = TimeoutAfterSend(reply, o, call.timeout)
                                 /\ IF o = "sent"
                                    THEN /\ hist' = Routed(h, ret.msg, FALSE, "")
                                         /\ pc' = "refill_loop"
                                         /\ LocalsDropped
                                         /\ UNCHANGED <<call, result>>
                                    ELSE IF o = "short"
                                    THEN /\ hist' = Routed(h, ret.msg, FALSE, "panic")
                                         /\ pc' = "panicked"
                                         /\ UNCHANGED <<call, result, cmsgs, header,
                                                        bytes_needed, ret>>
                                    ELSE /\ hist' = Routed(h, ret.msg, FALSE, o)
                                         /\ WaitReturns(Err(o))
                 [] UnexpectedType(ret.msg) ->
                      /\ WaitReturns(Err("UnexpectedTypeReceived"))
                      /\ hist' = Routed(hist, ret.msg, FALSE, "UnexpectedTypeReceived")
                      /\ UNCHANGED <<read_timeout, serial_counter, clock>>
                 [] OTHER ->
                      /\ hist' = Routed(hist, ret.msg, FALSE, "")
                      /\ pc' = "refill_loop"
                      /\ LocalsDropped
                      /\ UNCHANGED <<call, result, read_timeout, serial_counter, clock>>

-----------------------------------------------------------------------------
(* Streams the peer writes to an RpcConn: every sequence of up to MaxMsgs
   messages of the kinds below, each 24 bytes on the wire, read whole *)

Kinds ==
    { [typ |-> "Call", rserial |-> 0], [typ |-> "Signal", rserial |-> 0],
      [typ |-> "Reply", rserial |-> 1], [typ |-> "Error", rserial |-> 1],
      [typ |-> "Invalid", rserial |-> 0] }

RpcMsgs(i) ==
    { [typ |-> k.typ, serial |-> i, rserial |-> k.rserial, order |-> LittleEndian,
       hfl |-> 4, body_len |-> 0, fill |-> 0, blocks |-> <<>>] : k \in Kinds }

RpcStreams == UNION { StreamsOf(RpcMsgs, 1, n) : n \in 1..MaxMsgs }

Init == \E ms \in RpcStreams : InitConn(MakePeer(ms, "full"))

Next ==
    \/ \E f \in Filters : set_filter(f)
    \/ \E serial \in ResponseSerials : try_get_response(serial)
    \/ try_get_signal
    \/ try_get_call
    \/ \E serial \in ResponseSerials, tmo \in Timeouts : WaitEnter("wait_response", serial, tmo)
    \/ \E tmo \in Timeouts : WaitEnter("wait_signal", 0, tmo)
    \/ \E tmo \in Timeouts : WaitEnter("wait_call", 0, tmo)
    \/ WaitLoop
    \/ RefillFetch
    \/ GnmHeaderRefill
    \/ GnmReadFieldsLen
    \/ GnmBodyRefill
    \/ RefillRoute

Spec == Init /\ [][Next]_vars

-----------------------------------------------------------------------------
(* The dispatcher against the clock: up to MaxTimedMsgs messages that arrive
   whole, after any wait *)

TimedStreams == UNION { StreamsOf(RpcMsgs, 1, n) : n \in 1..MaxTimedMsgs }

InitD == \E ms \in TimedStreams : InitWith(MakePeer(ms, "full"), ClockOn)

SpecDeadline == InitD /\ [][Next]_vars

-----------------------------------------------------------------------------
(* What the peer sent, for comparison with what was received *)

\* the on-wire size of peer message m, by the D-Bus layout
TotalLen(m) == 16 + 4 + m.hfl + ((8 - ((16 + m.hfl + 4) % 8)) % 8) + m.body_len

PeerFds(m) == Flatten([k \in 1..Len(m.blocks) |-> m.blocks[k].fds])

\* index of the peer message a get_next_message call is (or would be) receiving
Current == Len(hist.delivered) + 1

\* the j-th successful receive returned exactly the bytes of the j-th message
BoundariesExact ==
    \A j \in 1..Len(hist.delivered) :
        /\ j <= Len(peer.msgs)
        /\ hist.delivered[j].from = MsgStart(peer.msgs, j)
        /\ hist.delivered[j].to = MsgStart(peer.msgs, j) + TotalLen(peer.msgs[j])
        /\ hist.delivered[j].serial = peer.msgs[j].serial

\* the receive buffer holds exactly the bytes read so far of the current
\* message, and nothing of the message after it
BufferWithinMessage ==
    /\ msg_buf_in = SubSeq(peer.wire, hist.buf_start + 1, rpos)
    /\ IF Current <= Len(peer.msgs)
       THEN /\ hist.buf_start = MsgStart(peer.msgs, Current)
            /\ Len(msg_buf_in) <= TotalLen(peer.msgs[Current])
            /\ rpos <= MsgStart(peer.msgs, Current) + TotalLen(peer.msgs[Current])
       ELSE msg_buf_in = <<>> /\ rpos = Len(peer.wire)

-----------------------------------------------------------------------------
(* Claims about Conn *)

\* C1: descriptor attribution.  Over successive successful get_next_message
\* calls, the j-th returned message carries exactly the descriptors the peer
\* sent with its j-th message, in order, wherever in the message their
\* control blocks arrive and however the reads are cut.
C1_DescriptorAttribution ==
    hist.failure = "none" =>
        \A j \in 1..Len(hist.delivered) :
            j <= Len(peer.msgs) /\ hist.delivered[j].raw_fds = PeerFds(peer.msgs[j])

\* C2: exact framing.  While every get_next_message call so far succeeded,
\* each call consumed exactly total = 16 + 4 + header_fields_len + pad +
\* body_len bytes, and the receive buffer never holds more than total bytes
\* nor a byte of the following message.
C2_ExactFraming ==
    hist.failure = "none" => (pc # "panicked" /\ BoundariesExact /\ BufferWithinMessage)

\* a second message is being received in pieces after a first one was returned
C2_Witness ==
    /\ hist.failure = "none"
    /\ Len(hist.delivered) = 1
    /\ pc = "gnm_body"
    /\ Len(msg_buf_in) = HEADER_LEN + 5

\* the peer wrote well-formed messages only
WellFormed ==
    \A i \in 1..Len(peer.msgs) : peer.msgs[i].order \in {LittleEndian, BigEndian}

\* C3: resume after timeout.  On a well-formed stream, when calls time out
\* and are retried, the buffered bytes stay a prefix of the current message
\* in every phase (header, header-fields length, body), a later call returns
\* that message with its exact boundary, and framing never breaks: no call
\* ends in a framing error (UnmarshalError, NotAllBytesUsed) or a panic.
C3_ResumeAfterTimeout ==
    WellFormed =>
        /\ pc # "panicked"
        /\ (pc = "gnm_ret" /\ ~ret.ok) => ret.err \in {"TimedOut", "IoError"}
        /\ hist.failure # "other" => (BoundariesExact /\ BufferWithinMessage)

\* C4: right after get_next_message returned Ok, msg_buf_in is empty.
C4_EmptyBufferAfterReceive ==
    /\ (pc = "gnm_ret" /\ ret.ok) => msg_buf_in = <<>>
    /\ (pc = "idle" /\ result.op = "get_next_message" /\ result.r.ok) => msg_buf_in = <<>>

\* the second message was just returned, after bytes had been buffered for it
C4_Witness ==
    /\ pc = "gnm_ret"
    /\ ret.ok
    /\ Len(hist.delivered) = 2
    /\ rpos = Len(peer.wire)

\* C5: serial monotonicity.  When no send_message call so far had a preset
\* serial, the i-th call was stamped i, and a returned message carries the
\* serial it was stamped with.
C5_SerialMonotonicity ==
    (\A i \in 1..Len(hist.sends) : hist.sends[i].preset = 0) =>
        /\ \A i \in 1..Len(hist.sends) : hist.sends[i].serial = i
        /\ serial_counter = InitialSerial + Len(hist.sends)
        /\ (pc = "idle" /\ result.op = "send_message" /\ result.r.ok)
              => result.r.msg.serial = Len(hist.sends)

\* three messages without a serial were sent
C5_Witness ==
    /\ Len(hist.sends) = 3
    /\ \A i \in 1..3 : hist.sends[i].preset = 0 /\ hist.sends[i].ok
    /\ result.op = "send_message"

\* C6 as claimed: serial uniqueness.  No two messages put on the socket by
\* one Conn carry the same serial, with and without preset serials.
C6_SerialUniqueness ==
    \A i, j \in 1..Len(hist.sent) :
        i # j => hist.sent[i].serial # hist.sent[j].serial

StampedSends == {i \in 1..Len(hist.sends) : hist.sends[i].preset = 0}

\* C6 as amended: the serials the connection itself stamps are pairwise
\* distinct, and the counter has grown by one for each stamped send and not
\* at all for a send with a preset serial (which is sent as given).
C6_StampedSerialsUnique ==
    /\ \A i, j \in StampedSends : i # j => hist.sends[i].serial # hist.sends[j].serial
    /\ serial_counter = InitialSerial + Cardinality(StampedSends)
    /\ \A i \in 1..Len(hist.sends) :
          hist.sends[i].preset # 0 => hist.sends[i].serial = hist.sends[i].preset

\* a preset serial equal to a stamped one went out between two stamped sends
C6_Witness ==
    /\ Cardinality(StampedSends) = 2
    /\ \E i \in 1..Len(hist.sends), j \in StampedSends :
          /\ hist.sends[i].preset # 0
          /\ hist.sends[i].serial = hist.sends[j].serial

-----------------------------------------------------------------------------
(* Claims about RpcConn *)

Msgs(entries) == [i \in 1..Len(entries) |-> entries[i].msg]

Range(q) == {q[i] : i \in 1..Len(q)}

\* the messages of type t that refill accepted and stored, in reception order
AcceptedOf(t) ==
    Msgs(SelectSeq(hist.routed, LAMBDA r : r.accepted /\ r.err = "" /\ r.msg.typ = t))

\* the messages handed to the user by try_get_<op> / wait_<op>, in order
ReturnedOf(op) == Msgs(SelectSeq(hist.returned, LAMBDA r : r.op = op))

Stored == Range(calls) \cup Range(signals) \cup {responses[k] : k \in DOMAIN responses}

RejectedCalls == {i \in 1..Len(hist.routed) :
                     ~hist.routed[i].accepted /\ hist.routed[i].msg.typ = "Call"}

\* an UnknownMethod reply to msg was put on the socket
Answered(msg) ==
    \E k \in 1..Len(hist.sent) :
        hist.sent[k].typ = "Error" /\ hist.sent[k].response_serial = msg.serial

\* C7: filtered Call is answered.  For every Call the filter rejected, refill
\* has put an UnknownMethod reply for it on the socket and gone on without
\* queueing the Call, unless the send itself failed, and then that failure is
\* what wait_* ended with.
C7_FilteredCallAnswered ==
    \A i \in RejectedCalls :
        /\ hist.routed[i].msg \notin Stored
        /\ \/ hist.routed[i].err = "" /\ Answered(hist.routed[i].msg)
           \/ hist.routed[i].err \in {"NixError", "panic"}

\* C8: filter demux.  A rejected message is in none of the three collections
\* and is never handed out; the socket carries nothing but the UnknownMethod
\* replies to rejected Calls; and under a Signal-only filter, once a Call, a
\* Signal and a Reply have been received, the calls queue and the responses
\* map are empty and the Signal is the one message queued or handed out.
C8_FilterDemux ==
    /\ \A i \in 1..Len(hist.routed) :
          ~hist.routed[i].accepted =>
              /\ hist.routed[i].msg \notin Stored
              /\ hist.routed[i].msg \notin Range(Msgs(hist.returned))
    /\ \A k \in 1..Len(hist.sent) :
          /\ hist.sent[k].typ = "Error"
          /\ \E i \in RejectedCalls : hist.routed[i].msg.serial = hist.sent[k].response_serial
    /\ Len(hist.sent) <= Cardinality(RejectedCalls)
    /\ (/\ filter = {"Signal"}
        /\ Len(hist.routed) = 3
        /\ [i \in 1..3 |-> hist.routed[i].msg.typ] = <<"Call", "Signal", "Reply">>)
          => /\ calls = <<>>
             /\ responses = EmptyMap
             /\ ReturnedOf("call") = <<>> /\ ReturnedOf("response") = <<>>
             /\ ReturnedOf("signal") \o signals = <<hist.routed[2].msg>>

\* under the Signal-only filter the Call was answered, the Reply dropped, and
\* the Signal handed out
C8_Witness ==
    /\ filter = {"Signal"}
    /\ Len(hist.routed) = 3
    /\ [i \in 1..3 |-> hist.routed[i].msg.typ] = <<"Call", "Signal", "Reply">>
    /\ Len(hist.sent) = 1
    /\ ReturnedOf("signal") = <<hist.routed[2].msg>>
    /\ pc = "idle"

\* C9: FIFO per category.  The Calls handed out so far are the first accepted
\* Calls in reception order, and the Signals handed out so far are the first
\* accepted Signals in reception order.
C9_FifoPerCategory ==
    /\ IsPrefix(ReturnedOf("call"), AcceptedOf("Call"))
    /\ IsPrefix(ReturnedOf("signal"), AcceptedOf("Signal"))

\* two Calls with a Signal between them were received, and both Calls were
\* handed out
C9_Witness ==
    /\ Len(ReturnedOf("call")) = 2
    /\ Len(hist.routed) = 3
    /\ hist.routed[2].msg.typ = "Signal" /\ hist.routed[2].accepted

AcceptedStored == {i \in 1..Len(hist.routed) :
                      hist.routed[i].accepted /\ hist.routed[i].err = ""}

Kept(i) ==
    \/ hist.routed[i].msg \in Stored
    \/ hist.routed[i].msg \in Range(Msgs(hist.returned))

\* C10 as claimed: no loss while waiting.  Every accepted Call, Signal, Reply
\* and Error received inside a wait_* is in its collection until it is handed
\* out.
C10_NoLossWhileWaiting == \A i \in AcceptedStored : Kept(i)

Replaced(i) ==
    \E j \in AcceptedStored :
        /\ j > i
        /\ hist.routed[i].msg.typ \in {"Reply", "Error"}
        /\ hist.routed[j].msg.typ \in {"Reply", "Error"}
        /\ hist.routed[j].msg.response_serial = hist.routed[i].msg.response_serial

\* C10 as amended: every accepted Call and Signal is in its queue until it is
\* handed out, and so is every accepted Reply or Error unless a later accepted
\* Reply or Error with the same response_serial took its place in the map.
C10_NoLossUnlessReplaced == \A i \in AcceptedStored : Kept(i) \/ Replaced(i)

\* wait_response(2) is blocked and has stored a Call, a Signal and a Reply for
\* serial 1 while waiting
C10_Witness ==
    /\ pc = "refill_loop"
    /\ call.op = "wait_response" /\ call.serial = 2
    /\ hist.returned = <<>>
    /\ Len(calls) = 1 /\ Len(signals) = 1 /\ 1 \in DOMAIN responses
    /\ Len(hist.routed) = 3

-----------------------------------------------------------------------------
(* Claims about time *)

\* C11: dispatcher deadline.  While a wait_* call with timeout Some(T) is in
\* progress (and so when it returns TimedOut), no more than T has passed
\* since its entry, whatever was received and queued meanwhile.  Waits in
\* which an UnknownMethod reply was sent are left aside.
C11_DispatcherDeadline ==
    (call.op \in Waits /\ call.timeout = "Some" /\ hist.sent = <<>>)
        => clock.now - clock.entry <= Budget

\* C15: receive timeout budget.  While a get_next_message(Some(T)) call is in
\* progress (and so when it returns), no more than T has passed since its
\* start: every read it made, in each of the three phases, was bounded by
\* the time then remaining.
C15_ReceiveTimeoutBudget ==
    (call.op = "get_next_message" /\ call.timeout = "Some")
        => clock.now - clock.start_time <= Budget

\* C13: send timeout.  A send_message(msg, Some(T)) call that has returned
\* took no longer than T, and when the socket did not take the data within
\* T it returned TimedOut.
C13_SendTimeout ==
    result.op = "send_message" =>
        /\ clock.now - clock.entry <= Budget
        /\ clock.now - clock.entry = Budget => result.r = Err("TimedOut")

\* total = 16 + 4 + header_fields_len + pad + body_len as a true sum, with
\* pad = (8 - (16 + header_fields_len + 4) mod 8) mod 8
TrueTotal(m) ==
    AddSmall(Add(m.body_len, m.hfl), 16 + 4 + ((8 - ((16 + m.hfl.lo + 4) % 8)) % 8))

\* C18: message length formula.  For every 32-bit header_fields_len and
\* body_len, once the length arithmetic is done the byte count that
\* get_next_message waits for is the true sum total, and the arithmetic
\* does not fail.
C18_LengthFormula ==
    pc # "gnm_len" =>
        /\ pc = "gnm_len_done"
        /\ bytes_needed = TrueTotal(peer.msgs[1])

\* C16: read-timeout restore.  Every step of the connection, each holding at
\* most one whole refill_buffer or send_message call, leaves the socket's
\* read timeout as it found it, whether that call returned Ok or an error.
C16_ReadTimeoutRestored == [][read_timeout' = read_timeout]_vars

-----------------------------------------------------------------------------
(* Claims about connect *)

StepNames == [i \in 2..Len(hist.handshake) |-> hist.handshake[i].step]

Called(name) == \E i \in 2..Len(hist.handshake) : hist.handshake[i].step = name

Reported(name, r) ==
    \E i \in 2..Len(hist.handshake) :
        hist.handshake[i].step = name /\ hist.handshake[i].r = r

\* the calls of a complete handshake, for the with_unix_fd connect was given
FullHandshake ==
    IF hist.handshake[1].r
    THEN [i \in 2..4 |-> <<"", "do_auth", "negotiate_unix_fds", "send_begin">>[i]]
    ELSE [i \in 2..3 |-> <<"", "do_auth", "send_begin">>[i]]

Traffic == hist.sends # <<>> \/ rpos > 0 \/ pc \notin {"unconnected", "connect_failed", "idle"}

\* C14: handshake order.  connect calls do_auth, negotiate_unix_fds only when
\* with_unix_fd was given, and send_begin, in that order, each only after the
\* one before it reported Ok (none when the socket could not be connected),
\* and all of them before anything is sent or
\* received; Rejected from do_auth gives AuthFailed and from
\* negotiate_unix_fds UnixFdNegotiationFailed, and then send_begin was not
\* called and there is no Conn; a Conn just produced has an empty receive
\* buffer and serial counter 1.
C14_HandshakeOrder ==
    /\ pc = "unconnected" => hist.handshake = <<>> /\ ~Traffic
    /\ pc # "unconnected" =>
          /\ \A i \in DOMAIN StepNames :
                /\ i \in DOMAIN FullHandshake /\ StepNames[i] = FullHandshake[i]
                /\ i > 2 => hist.handshake[i - 1].r = "Ok"
          /\ ~Called("do_auth") =>
                pc = "connect_failed" /\ result.r = Err("IoError")
          /\ Reported("do_auth", "Rejected") =>
                /\ result = [op |-> "connect", r |-> Err("AuthFailed")]
                /\ ~Called("send_begin") /\ ~Called("negotiate_unix_fds")
          /\ Reported("negotiate_unix_fds", "Rejected") =>
                /\ result = [op |-> "connect", r |-> Err("UnixFdNegotiationFailed")]
                /\ ~Called("send_begin")
          /\ pc = "connect_failed" =>
                /\ ~result.r.ok
                /\ msg_buf_in = NoBuffer /\ serial_counter = NoCounter
                /\ ~Traffic
          /\ pc # "connect_failed" =>
                /\ DOMAIN StepNames = DOMAIN FullHandshake
                /\ Reported("send_begin", "Ok")
          /\ (result.op = "connect" /\ result.r.ok /\ pc = "idle") =>
                /\ msg_buf_in = <<>> /\ serial_counter = 1
                /\ ~Traffic

\* a Conn was produced after descriptor passing was negotiated, and has sent
\* a message
C14_Witness ==
    /\ pc = "idle"
    /\ Len(hist.handshake) = 4
    /\ hist.handshake[3] = Step("negotiate_unix_fds", "Ok")
    /\ Len(hist.sends) = 1

-----------------------------------------------------------------------------
(* More claims about RpcConn *)

\* refill is looking at a message of type Invalid that get_next_message returned
InvalidDelivered ==
    pc = "gnm_ret" /\ call.op \in Waits /\ ret.ok /\ ret.msg.typ = "Invalid"

NoRepeats(q) == \A i, j \in 1..Len(q) : i # j => q[i] # q[j]

Partition ==
    /\ \A i \in 1..Len(calls) : calls[i].typ = "Call"
    /\ \A i \in 1..Len(signals) : signals[i].typ = "Signal"
    /\ \A k \in DOMAIN responses :
          /\ responses[k].typ \in {"Reply", "Error"}
          /\ responses[k].response_serial = k
    /\ NoRepeats(calls) /\ NoRepeats(signals)
    /\ \A k, l \in DOMAIN responses : k # l => responses[k] # responses[l]
    /\ Range(calls) \cap Range(signals) = {}
    /\ \A k \in DOMAIN responses : responses[k] \notin Range(calls) \cup Range(signals)

\* refill returns Ok in this step
RefillSucceeds == pc = "gnm_ret" /\ call.op \in Waits /\ pc' = "wait_loop"

AdmitsOne ==
    IF RefillSucceeds
    THEN Stored' \ Stored = {ret.msg} /\ Accepts(ret.msg)
    ELSE Stored' \subseteq Stored

\* C17: routing partition.  In every state the calls queue holds Calls only,
\* the signals queue Signals only, each responses entry is a Reply or Error
\* under its own response_serial, and no message is in two places; a step in
\* which refill returns Ok puts exactly one message, accepted by the filter,
\* into the collections, and no other step puts any.
C17_RoutingPartition == []Partition /\ [][AdmitsOne]_vars

\* a Call, a Signal and a Reply are stored at once
C17_Witness ==
    /\ Len(calls) = 1 /\ Len(signals) = 1 /\ DOMAIN responses = {1}
    /\ Len(hist.routed) = 3
    /\ pc = "idle"

\* the positions in hist.routed of the accepted Replies and Errors that
\* answer serial k
AnswersTo(k) ==
    {i \in AcceptedStored : /\ hist.routed[i].msg.typ \in {"Reply", "Error"}
                            /\ hist.routed[i].msg.response_serial = k}

Latest(k) == hist.routed[CHOOSE i \in AnswersTo(k) : \A j \in AnswersTo(k) : j <= i].msg

\* the map holds, under k, the latest accepted answer to k and nothing else,
\* until that answer is handed out
LastWriteWins ==
    /\ \A k \in DOMAIN responses : AnswersTo(k) # {} /\ responses[k] = Latest(k)
    /\ \A k \in ResponseSerials :
          (AnswersTo(k) # {} /\ k \notin DOMAIN responses)
              => Latest(k) \in Range(ReturnedOf("response"))

\* a step that hands a response to the user
HandsOutResponse ==
    /\ Len(hist'.returned) = Len(hist.returned) + 1
    /\ hist'.returned[Len(hist'.returned)].op = "response"

\* what is handed out is the stored entry, and the entry is gone afterwards,
\* so that try_get_response finds nothing under that serial
RemovesOnReturn ==
    HandsOutResponse =>
        LET m == hist'.returned[Len(hist'.returned)].msg
        IN  /\ m.response_serial \in DOMAIN responses
            /\ m = responses[m.response_serial]
            /\ responses' = remove(responses, m.response_serial)
            /\ m.response_serial \notin DOMAIN responses'

\* C19: last write wins.  The responses map holds at most one entry per
\* response_serial; of two accepted Replies or Errors with the same
\* response_serial that arrive before the first is retrieved, the second
\* replaces the first; try_get_response(serial) removes and returns the
\* stored entry, so that a second try_get_response(serial) right after it
\* finds none.
C19_LastWriteWins == []LastWriteWins /\ [][RemovesOnReturn]_vars

\* two answers to serial 1 arrived before any was retrieved, the second one
\* was handed out and the map is empty
C19_Witness ==
    /\ AnswersTo(1) = {1, 2}
    /\ Len(hist.returned) = 1
    /\ hist.returned[1] = [op |-> "response", msg |-> hist.routed[2].msg]
    /\ responses = EmptyMap
    /\ pc = "idle"

-----------------------------------------------------------------------------
(* Claims about a peer that closes *)

\* the peer closed and what it wrote does not hold another complete message
ClosedEarly ==
    /\ peer.closed
    /\ \/ Len(hist.delivered) = Len(peer.msgs)
       \/ Len(peer.wire) < MsgEnd(peer.msgs, Len(hist.delivered) + 1)

WaitsForClosedPeer ==
    /\ call.op = "get_next_message" /\ call.timeout = "None"
    /\ pc \in {"gnm_header", "gnm_body"}
    /\ ClosedEarly

\* C20: termination on peer close.  When the peer closed the stream before a
\* complete message arrived, a get_next_message call with timeout None
\* eventually returns an error; it does not go round the header loop or the
\* body loop for ever.
C20_TerminatesOnClose == WaitsForClosedPeer ~> (pc = "gnm_ret" /\ ~ret.ok)

====
